---- MODULE Spec2Model ----
(***************************************************************************)
(* A model of projectron: NewProjection resolves a "+key=value" definition *)
(* string into a pj record bound to one kernel (LngLat, Mercator, LCC,     *)
(* Equirectangular); Forward and Inverse run the shared wrapper            *)
(* (commonFwd / commonInv) around the kernel's fwd / inv.                  *)
(*                                                                         *)
(* Strings are TLA+ strings, taken apart with Len, SubSeq and \o, so that  *)
(* Split, keyVal, ParseFloat and parseDegreeString are computed as the     *)
(* code computes them.                                                     *)
(*                                                                         *)
(* float64 values are decimal floating point numbers with an 8 digit       *)
(* mantissa, [k |-> "f", m |-> mantissa, e |-> exponent] standing for      *)
(* m * 10^e with 10^7 <= |m| < 10^8 (or m = 0), plus the IEEE special      *)
(* values +Inf, -Inf and NaN.  Results are rounded to the mantissa.        *)
(***************************************************************************)
EXTENDS Integers, Sequences, FiniteSets, TLC

----------------------------------------------------------------------------
(* float64 arithmetic *)

IAbs(i) == IF i < 0 THEN -i ELSE i

ISgn(i) == IF i < 0 THEN -1 ELSE IF i > 0 THEN 1 ELSE 0

Fin(m, e) == [k |-> "f", m |-> m, e |-> e]

Zero == Fin(0, 0)

PInf == [k |-> "i", m |-> 1, e |-> 0]

NInf == [k |-> "i", m |-> -1, e |-> 0]

NaN == [k |-> "n", m |-> 0, e |-> 0]

\* the float64 values
Float == [k : {"f", "i", "n"}, m : Int, e : Int]

IsFin(x) == x.k = "f"

IsNaN(x) == x.k = "n"

\* the number of decimal digits of a > 0
Digits(a) ==
  IF a < 10^5
  THEN (IF a < 10 THEN 1 ELSE IF a < 10^2 THEN 2 ELSE IF a < 10^3 THEN 3
        ELSE IF a < 10^4 THEN 4 ELSE 5)
  ELSE (IF a < 10^6 THEN 6 ELSE IF a < 10^7 THEN 7 ELSE IF a < 10^8 THEN 8
        ELSE IF a < 10^9 THEN 9 ELSE 10)

\* s * a * 10^e for a of more than 8 digits (drop = digits - 8), rounded
\* half up to 8 digits
Round(s, a, e, drop) ==
  IF (a + 5 * 10^(drop - 1)) \div 10^drop >= 10^8 THEN Fin(s * 10^7, e + drop + 1)
  ELSE Fin(s * ((a + 5 * 10^(drop - 1)) \div 10^drop), e + drop)

\* v * 10^e for v # 0 of d digits
NormDigits(v, e, d) ==
  IF d <= 8 THEN Fin(v * 10^(8 - d), e - (8 - d))
  ELSE Round(ISgn(v), IAbs(v), e, d - 8)

\* the value v * 10^e as a float64: rounded (half up, on the magnitude) to an
\* 8 digit mantissa
Norm(v, e) == IF v = 0 THEN Zero ELSE NormDigits(v, e, Digits(IAbs(v)))

FInt(i) == Norm(i, 0)

FNeg[x \in Float] == [x EXCEPT !.m = -x.m]

FAbs[x \in Float] == [x EXCEPT !.m = IAbs(x.m)]

\* math.Signbit (the model has no negative zero)
Signbit(x) == x.m < 0

\* -1, 0, 1 as x <, =, > y; 2 when unordered (a NaN operand)
FCmp[x \in Float, y \in Float] ==
  IF IsNaN(x) \/ IsNaN(y) THEN 2
  ELSE IF ~IsFin(x) \/ ~IsFin(y)
    THEN ISgn((IF IsFin(x) THEN 0 ELSE x.m) - (IF IsFin(y) THEN 0 ELSE y.m))
  ELSE IF ISgn(x.m) # ISgn(y.m) THEN ISgn(ISgn(x.m) - ISgn(y.m))
  ELSE IF x.m = 0 THEN 0
  ELSE IF x.e # y.e THEN (IF x.e > y.e THEN 1 ELSE -1) * ISgn(x.m)
  ELSE ISgn(x.m - y.m)

FLt[x \in Float, y \in Float] == FCmp[x, y] = -1

FLe[x \in Float, y \in Float] == FCmp[x, y] \in {-1, 0}

FGt[x \in Float, y \in Float] == FCmp[x, y] = 1

FGe[x \in Float, y \in Float] == FCmp[x, y] \in {0, 1}

FEq[x \in Float, y \in Float] == FCmp[x, y] = 0

\* x + y when one of them is not finite
FAddSpecial(x, y) ==
  IF IsNaN(x) \/ IsNaN(y) THEN NaN
  ELSE IF ~IsFin(x) THEN (IF ~IsFin(y) /\ y.m # x.m THEN NaN ELSE x)
  ELSE y

\* hi + lo for finite nonzero hi, lo with 0 <= d = hi.e - lo.e <= 9
FAddAligned(hi, lo, d) ==
  Norm(hi.m * 10 + ISgn(lo.m) * ((IAbs(lo.m) * 10 + (10^d) \div 2) \div 10^d),
       hi.e - 1)

FAdd[x \in Float, y \in Float] ==
  IF ~IsFin(x) \/ ~IsFin(y) THEN FAddSpecial(x, y)
  ELSE IF x.m = 0 \/ (y.m # 0 /\ y.e - x.e > 9) THEN y
  ELSE IF y.m = 0 \/ x.e - y.e > 9 THEN x
  ELSE FAddAligned(IF x.e >= y.e THEN x ELSE y, IF x.e >= y.e THEN y ELSE x,
                   IAbs(x.e - y.e))

FSub[x \in Float, y \in Float] == FAdd[x, FNeg[y]]

\* x * y when one of them is not finite
FMulSpecial(x, y) ==
  IF IsNaN(x) \/ IsNaN(y) \/ x.m = 0 \/ y.m = 0 THEN NaN
  ELSE IF ISgn(x.m) = ISgn(y.m) THEN PInf ELSE NInf

\* a * b \div 10^7 for mantissas a, b, by 4 digit limbs
MulLimbs(ah, al, bh, bl) ==
  ah * bh * 10 + (ah * bl + al * bh + (al * bl) \div 10^4) \div 10^3

FMul[x \in Float, y \in Float] ==
  IF ~IsFin(x) \/ ~IsFin(y) THEN FMulSpecial(x, y)
  ELSE Norm(ISgn(x.m) * ISgn(y.m)
              * MulLimbs(IAbs(x.m) \div 10^4, IAbs(x.m) % 10^4,
                         IAbs(y.m) \div 10^4, IAbs(y.m) % 10^4),
            x.e + y.e + 7)

\* one more decimal digit of the quotient d.q with remainder d.r, dividing by d.b
LongDivDigit[d \in [q : Int, r : Int, b : Int]] ==
  [d EXCEPT !.q = d.q * 10 + (d.r * 10) \div d.b, !.r = (d.r * 10) % d.b]

\* four more digits
LongDiv4[d \in [q : Int, r : Int, b : Int]] ==
  LongDivDigit[LongDivDigit[LongDivDigit[LongDivDigit[d]]]]

\* eight more digits, and a ninth when n = 9
LongDiv(d, n) == IF n = 9 THEN LongDivDigit[LongDiv4[LongDiv4[d]]].q ELSE LongDiv4[LongDiv4[d]].q

\* x / y when one of them is not finite or y is zero
FDivSpecial(x, y) ==
  IF IsNaN(x) \/ IsNaN(y) THEN NaN
  ELSE IF ~IsFin(x) THEN (IF ~IsFin(y) THEN NaN
                          ELSE IF x.m * (IF y.m < 0 THEN -1 ELSE 1) > 0 THEN PInf ELSE NInf)
  ELSE IF ~IsFin(y) THEN Zero
  ELSE IF x.m = 0 THEN NaN ELSE IF x.m > 0 THEN PInf ELSE NInf

\* a / b for mantissas a, b > 0, to n digits after the first
FDivDigits(s, a, b, e, n) ==
  Norm(s * LongDiv([q |-> a \div b, r |-> a % b, b |-> b], n), e - n)

FDiv[x \in Float, y \in Float] ==
  IF ~IsFin(x) \/ ~IsFin(y) \/ y.m = 0 THEN FDivSpecial(x, y)
  ELSE IF x.m = 0 THEN Zero
  ELSE FDivDigits(ISgn(x.m) * ISgn(y.m), IAbs(x.m), IAbs(y.m), x.e - y.e,
                  IF IAbs(x.m) >= IAbs(y.m) THEN 8 ELSE 9)

\* math.Floor
Floor[x \in Float] ==
  IF ~IsFin(x) \/ x.e >= 0 THEN x
  ELSE FInt(IF x.e <= -8 THEN (IF x.m < 0 THEN -1 ELSE 0) ELSE x.m \div 10^(-x.e))

\* math.Copysign
Copysign[x \in Float, s \in Float] == IF Signbit(s) THEN FNeg[FAbs[x]] ELSE FAbs[x]

\* v, negated when b holds
NegIf(b, v) == IF b THEN FNeg[v] ELSE v

----------------------------------------------------------------------------
(* package math *)

\* math.Pi, rounded down to the mantissa: the source's s_pi (3.14159265359)
\* is larger than math.Pi, and stays larger here (s_pi rounds up).
Pi == Fin(31415926, -7)

\* 2 Pi and Pi / 2, as the mantissa holds them
TwoPi == Fin(62831852, -7)

HalfPi == Fin(15707963, -7)

Ln2 == Fin(69314718, -8)

Ln10 == Fin(23025851, -7)

Half == Fin(50000000, -8)

One == Fin(10000000, -7)

Two == Fin(20000000, -7)

Four == Fin(40000000, -7)

RECURSIVE ISqrt(_, _, _)
\* integer square root of v by Newton's iteration from s (s >= sqrt(v))
ISqrt(v, s, n) ==
  IF n = 0 \/ s * s <= v THEN s ELSE ISqrt(v, (s + v \div s) \div 2, n - 1)

\* one Newton step for the square root of x from the estimate g
Newton(x, g) == FMul[Half, FAdd[g, FDiv[x, g]]]

\* a first estimate of the square root of a finite x > 0
SqrtGuess(x) ==
  Norm(ISqrt(IF x.e % 2 = 1 THEN x.m * 10 ELSE x.m, 31623, 9), (x.e - (x.e % 2)) \div 2)

\* math.Sqrt
Sqrt[x \in Float] ==
  IF IsNaN(x) \/ x.m < 0 THEN NaN
  ELSE IF ~IsFin(x) \/ x.m = 0 THEN x
  ELSE Newton(x, Newton(x, SqrtGuess(x)))

RECURSIVE SinCosSeries(_, _, _, _)
\* the series of sin (off = 0) and cos (off = 1) in x2 = x^2, from its k-th
\* term inward: acc := 1 - x2/((2k - off)(2k + 1 - off)) * acc
SinCosSeries(x2, k, off, acc) ==
  IF k = 0 \/ IsNaN(acc) THEN acc
  ELSE SinCosSeries(x2, k - 1, off,
         FSub[One, FMul[FDiv[x2, FInt((2 * k - off) * (2 * k + 1 - off))], acc]])

\* x reduced to [-Pi, Pi]
Reduce(x) ==
  IF FLe[FAbs[x], Pi] THEN x
  ELSE FSub[x, FMul[TwoPi, Floor[FAdd[FDiv[x, TwoPi], Half]]]]

\* sin f for |f| <= Pi/2
SinPoly(f) == FMul[f, SinCosSeries(FMul[f, f], 7, 0, One)]

\* cos f for 0 <= f <= Pi/2
CosPoly(f) == SinCosSeries(FMul[f, f], 7, 1, One)

\* r in [-Pi, Pi] folded into [-Pi/2, Pi/2], keeping its sine
SinFold(r) ==
  IF FGt[r, HalfPi] THEN FSub[Pi, r]
  ELSE IF FLt[r, FNeg[HalfPi]] THEN FSub[FNeg[Pi], r]
  ELSE r

\* math.Sin
Sin[x \in Float] == IF ~IsFin(x) THEN NaN ELSE SinPoly(SinFold(Reduce(x)))

\* cos r for 0 <= r <= Pi
CosReduced(r) ==
  NegIf(FGt[r, HalfPi], CosPoly(IF FGt[r, HalfPi] THEN FSub[Pi, r] ELSE r))

\* math.Cos
Cos[x \in Float] == IF ~IsFin(x) THEN NaN ELSE CosReduced(FAbs[Reduce(x)])

\* math.Tan
Tan[x \in Float] == FDiv[Sin[x], Cos[x]]

RECURSIVE OddSeries(_, _, _)
\* 1 + z/3 + z^2/5 + .. from its k-th term inward: acc := 1/(2k+1) + z * acc
OddSeries(z, k, acc) ==
  IF k < 0 \/ IsNaN(acc) THEN acc
  ELSE OddSeries(z, k - 1, FAdd[FDiv[One, FInt(2 * k + 1)], FMul[z, acc]])

\* tan(t/2) from u = tan t
AtanHalve(u) == FDiv[u, FAdd[One, Sqrt[FAdd[One, FMul[u, u]]]]]

\* 4 atan h, for h = tan(t/4) with |t| <= Pi/4
AtanSmall(h) == FMul[Four, FMul[h, OddSeries(FNeg[FMul[h, h]], 6, Zero)]]

\* atan a for a >= 0, from atan z for z = a or 1/a in [0, 1]
AtanPos(a) ==
  NegIf(FGt[a, One],
        FSub[AtanSmall(AtanHalve(AtanHalve(IF FGt[a, One] THEN FDiv[One, a] ELSE a))),
             IF FGt[a, One] THEN HalfPi ELSE Zero])

\* math.Atan
Atan[x \in Float] ==
  IF IsNaN(x) THEN NaN
  ELSE IF ~IsFin(x) THEN Copysign[HalfPi, x]
  ELSE Copysign[AtanPos(FAbs[x]), x]

RECURSIVE ExpSeries(_, _, _)
\* 1 + x + x^2/2! + .. from its k-th term inward: acc := 1 + x/k * acc
ExpSeries(x, k, acc) ==
  IF k = 0 \/ IsNaN(acc) THEN acc
  ELSE ExpSeries(x, k - 1, FAdd[One, FMul[FDiv[x, FInt(k)], acc]])

\* v * 2^s for |s| <= 30
Scale2Step(v, s) == IF s >= 0 THEN FMul[v, FInt(2^s)] ELSE FDiv[v, FInt(2^(-s))]

RECURSIVE Scale2(_, _)
\* v * 2^n, by steps of at most 2^30
Scale2(v, n) ==
  IF n = 0 THEN v
  ELSE IF n > 30 THEN Scale2(Scale2Step(v, 30), n - 30)
  ELSE IF n < -30 THEN Scale2(Scale2Step(v, -30), n + 30)
  ELSE Scale2Step(v, n)

\* e^x as 2^k * e^(x - k ln 2), k an integer valued float
ExpScaled(x, k) ==
  Scale2(ExpSeries(FSub[x, FMul[k, Ln2]], 10, One), k.m \div 10^(-k.e))

\* math.Exp: k is 0 for |x| <= 1/2, else the integer nearest to x / ln 2
Exp[x \in Float] ==
  IF ~IsFin(x) THEN (IF IsNaN(x) THEN NaN ELSE IF x.m > 0 THEN PInf ELSE Zero)
  ELSE IF FGt[x, FInt(709)] THEN PInf
  ELSE IF FLt[x, FInt(-745)] THEN Zero
  ELSE ExpScaled(x, IF FLe[FAbs[x], Half] THEN Zero
                    ELSE Floor[FAdd[FDiv[x, Ln2], Half]])

\* 2 atanh z
Atanh2(z) == FMul[Two, FMul[z, OddSeries(FMul[z, z], 6, Zero)]]

\* ln w for w near 1, as 2 atanh((w-1)/(w+1))
LogNear(w) == Atanh2(FDiv[FSub[w, One], FAdd[w, One]])

\* the halvings that take the mantissa m (as m * 10^-7, in [1, 10)) into [0.75, 1.5)
LogHalvings(m) ==
  IF m < 15000000 THEN 0 ELSE IF m < 30000000 THEN 1 ELSE IF m < 60000000 THEN 2 ELSE 3

\* ln x for a finite x > 0: ln of x itself when it is near 1, else of its
\* mantissa halved into [0.75, 1.5), plus the halvings' and the exponent's logarithms
LogFinite(x, near) ==
  FAdd[FAdd[LogNear(IF near THEN x ELSE FDiv[Fin(x.m, -7), FInt(2^LogHalvings(x.m))]),
            IF near THEN Zero ELSE FMul[FInt(LogHalvings(x.m)), Ln2]],
       IF near THEN Zero ELSE FMul[FInt(x.e + 7), Ln10]]

\* math.Log
Log[x \in Float] ==
  IF IsNaN(x) \/ x.m < 0 THEN NaN
  ELSE IF ~IsFin(x) THEN PInf
  ELSE IF x.m = 0 THEN NInf
  ELSE LogFinite(x, FGe[x, Fin(75000000, -8)] /\ FLt[x, Fin(15000000, -7)])

IsInteger(y) == IsFin(y) /\ Floor[y] = y

\* |x|^y as exp(y ln |x|), negated for x < 0 and an odd integer y
PowSigned(r, x, y) ==
  NegIf(x.m < 0 /\ IsInteger(y) /\ Floor[FMul[Half, y]] # FMul[Half, y], r)

\* math.Pow
Pow[x \in Float, y \in Float] ==
  IF y = Zero \/ x = One THEN One
  ELSE IF IsNaN(x) \/ IsNaN(y) THEN NaN
  ELSE IF x = Zero THEN (IF y.m < 0 THEN PInf ELSE Zero)
  ELSE IF x.m < 0 /\ ~IsInteger(y) /\ IsFin(x) /\ IsFin(y) THEN NaN
  ELSE PowSigned(Exp[FMul[y, Log[FAbs[x]]]], x, y)

----------------------------------------------------------------------------
(* packages strings and strconv *)

\* s[i-1] of the source: the i-th character, as a string
Ch(s, i) == SubSeq(s, i, i)

\* the least position in P less one, -1 for no position
FirstOf(P) ==
  IF P = {} THEN -1 ELSE (CHOOSE i \in P : \A j \in P : i <= j) - 1

\* strings.Index for a one-character separator: 0-based, -1 when absent
Index(s, c) == FirstOf({i \in 1..Len(s) : Ch(s, i) = c})

RECURSIVE SplitAt(_, _, _)
\* strings.Split, i the index of the first separator
SplitAt(s, c, i) ==
  IF i < 0 THEN <<s>>
  ELSE <<SubSeq(s, 1, i)>>
         \o SplitAt(SubSeq(s, i + 2, Len(s)), c, Index(SubSeq(s, i + 2, Len(s)), c))

\* strings.Split for a one-character separator
Split(s, c) == SplitAt(s, c, Index(s, c))

IsSpace(c) == c \in {" ", "\t", "\n", "\r"}

RECURSIVE TrimSpace(_)
\* strings.TrimSpace
TrimSpace(s) ==
  IF s = "" THEN s
  ELSE IF IsSpace(Ch(s, 1)) THEN TrimSpace(Tail(s))
  ELSE IF IsSpace(Ch(s, Len(s))) THEN TrimSpace(SubSeq(s, 1, Len(s) - 1))
  ELSE s

\* strings.HasSuffix for a one-character suffix
HasSuffix(s, c) == Len(s) > 0 /\ Ch(s, Len(s)) = c

DigitOf(c) ==
  CASE c = "0" -> 0 [] c = "1" -> 1 [] c = "2" -> 2 [] c = "3" -> 3 [] c = "4" -> 4
    [] c = "5" -> 5 [] c = "6" -> 6 [] c = "7" -> 7 [] c = "8" -> 8 [] c = "9" -> 9
    [] OTHER -> -1

IsDigits(s) == \A i \in 1..Len(s) : DigitOf(Ch(s, i)) >= 0

RECURSIVE Accum(_, _, _, _)
\* <<v, drop>>: v the first 9 significant digits of ds from its i-th character
\* on (after the v read so far), drop the number of digits after them
Accum(ds, i, v, drop) ==
  IF i > Len(ds) THEN <<v, drop>>
  ELSE IF v >= 10^8 THEN Accum(ds, i + 1, v, drop + 1)
  ELSE Accum(ds, i + 1, v * 10 + DigitOf(Ch(ds, i)), drop)

\* the float64 of sign sgn whose digits are ip before and fp after the point;
\* acc is Accum of the digits
ParseAccum(sgn, ip, fp, acc) ==
  IF IsDigits(ip) /\ IsDigits(fp) /\ Len(ip) + Len(fp) > 0
  THEN [f |-> Norm(sgn * acc[1], acc[2] - Len(fp)), ok |-> TRUE]
  ELSE [f |-> Zero, ok |-> FALSE]

ParseDigits(sgn, ip, fp) == ParseAccum(sgn, ip, fp, Accum(ip \o fp, 1, 0, 0))

\* body is the literal after its sign, dot the index of its point
ParseDecimal(sgn, body, dot) ==
  ParseDigits(sgn, IF dot < 0 THEN body ELSE SubSeq(body, 1, dot),
              IF dot < 0 THEN "" ELSE SubSeq(body, dot + 2, Len(body)))

ParseSigned(sgn, body) == ParseDecimal(sgn, body, Index(body, "."))

\* strconv.ParseFloat(s, 64) for decimal literals [+-]digits[.digits]; the
\* model's strings hold no exponent, hexadecimal, "inf" or "nan" literal.
\* A syntax error yields 0 and ok = FALSE (err # nil).
ParseFloat(s) ==
  ParseSigned(IF Len(s) > 0 /\ Ch(s, 1) = "-" THEN -1 ELSE 1,
              IF Len(s) > 0 /\ Ch(s, 1) \in {"+", "-"} THEN Tail(s) ELSE s)

\* a float64 literal of the source
Lit(s) == ParseFloat(s).f

\* strconv.ParseBool: the value, and ok = (err = nil)
ParseBool(s) ==
  IF s \in {"1", "t", "T", "true", "TRUE", "True"} THEN [b |-> TRUE, ok |-> TRUE]
  ELSE IF s \in {"0", "f", "F", "false", "FALSE", "False"} THEN [b |-> FALSE, ok |-> TRUE]
  ELSE [b |-> FALSE, ok |-> FALSE]

----------------------------------------------------------------------------
(* math.go *)

\* the constants are folded when the program is compiled: each is written
\* with the mantissa its value rounds to

\* 3.14159265359
s_pi == Fin(31415927, -7)

\* math.Pi * 2
two_pi == Fin(62831852, -7)

\* math.Pi / 2
half_pi == Fin(15707963, -7)

\* math.Pi / 4
fort_pi == Fin(78539815, -8)

\* math.Pi / 180
d2r == Fin(17453292, -9)

msfn(sinphi, cosphi, es) ==
  FDiv[cosphi, Sqrt[FSub[One, FMul[FMul[es, sinphi], sinphi]]]]

tsfn(phi, sinphi, e) ==
  FDiv[Tan[FMul[Half, FSub[half_pi, phi]]],
       Pow[FDiv[FSub[One, sinphi], FAdd[One, sinphi]], FMul[Half, e]]]

----------------------------------------------------------------------------
(* projection.go: constants, errors, catalogs *)

\* untyped integer constant expressions: 1 / 6 is the integer quotient
sixth == FInt(1 \div 6)

ra4 == FInt(17 \div 360)

ra6 == FInt(67 \div 3024)

rv4 == FInt(5 \div 72)

rv6 == FInt(55 \div 1296)

\* 4.84813681109535993589914102357e-6
sec2rad == Fin(48481368, -13)

\* 1.0e-10
epsln == Fin(10000000, -17)

\* the const block has no iota: each name repeats the expression above it
PJD_UNKNOWN == 0

PJD_GRIDSHIFT == PJD_UNKNOWN

PJD_7PARAM == PJD_GRIDSHIFT

PJD_3PARAM == PJD_7PARAM

PJD_WGS84 == PJD_3PARAM

nil == "nil"

ErrUnsupportedProj == "This is not a supported Projection"

ErrInvalidParam == "We encountered an illegal parameter"

ErrOutOfBounds == "this is way out of bounds"

hugeVal == PInf

\* datums_list: id -> definition, ellipse
datums_list ==
     ("WGS84" :> [definition |-> "towgs84=0,0,0",
        ellipse |-> "WGS84"])
  @@ ("GGRS87" :> [definition |-> "towgs84=-199.87,74.79,246.62",
        ellipse |-> "GRS80"])
  @@ ("NAD83" :> [definition |-> "towgs84=0,0,0",
        ellipse |-> "GRS80"])
  @@ ("NAD27" :> [definition |-> "nadgrids=@conus,@alaska,@ntv2_0.gsb,@ntv1_can.dat",
        ellipse |-> "clrk66"])
  @@ ("potsdam" :> [definition |-> "towgs84=598.1,73.7,418.2,0.202,0.045,-2.455,6.7",
        ellipse |-> "bessel"])
  @@ ("carthage" :> [definition |-> "towgs84=-263.0,6.0,431.0",
        ellipse |-> "clrk80ign"])
  @@ ("hermannskogel" :> [definition |-> "towgs84=577.326,90.129,463.919,5.137,1.474,5.297,2.4232",
        ellipse |-> "bessel"])
  @@ ("ire65" :> [definition |-> "towgs84=482.530,-130.596,564.557,-1.042,-0.214,-0.631,8.15",
        ellipse |-> "mod_airy"])
  @@ ("nzgd49" :> [definition |-> "towgs84=59.47,-5.04,187.44,0.47,-0.1,1.024,-4.5993",
        ellipse |-> "intl"])
  @@ ("OSGB36" :> [definition |-> "towgs84=446.448,-125.157,542.060,0.1502,0.2470,0.8421,-20.4894",
        ellipse |-> "airy"])

\* ellipse_list: id -> major, ell
ellipse_list ==
     ("MERIT" :> [major |-> "a=6378137.0", ell |-> "rf=298.257"])
  @@ ("SGS85" :> [major |-> "a=6378136.0", ell |-> "rf=298.257"])
  @@ ("GRS80" :> [major |-> "a=6378137.0", ell |-> "rf=298.257222101"])
  @@ ("IAU76" :> [major |-> "a=6378140.0", ell |-> "rf=298.257"])
  @@ ("airy" :> [major |-> "a=6377563.396", ell |-> "b=6356256.910"])
  @@ ("APL4.9" :> [major |-> "a=6378137.0.", ell |-> "rf=298.25"])
  @@ ("NWL9D" :> [major |-> "a=6378145.0.", ell |-> "rf=298.25"])
  @@ ("mod_airy" :> [major |-> "a=6377340.189", ell |-> "b=6356034.446"])
  @@ ("andrae" :> [major |-> "a=6377104.43", ell |-> "rf=300.0"])
  @@ ("aust_SA" :> [major |-> "a=6378160.0", ell |-> "rf=298.25"])
  @@ ("GRS67" :> [major |-> "a=6378160.0", ell |-> "rf=298.2471674270"])
  @@ ("bessel" :> [major |-> "a=6377397.155", ell |-> "rf=299.1528128"])
  @@ ("bess_nam" :> [major |-> "a=6377483.865", ell |-> "rf=299.1528128"])
  @@ ("clrk66" :> [major |-> "a=6378206.4", ell |-> "b=6356583.8"])
  @@ ("clrk80" :> [major |-> "a=6378249.145", ell |-> "rf=293.4663"])
  @@ ("clrk80ign" :> [major |-> "a=6378249.2", ell |-> "rf=293.4660212936269"])
  @@ ("CPM" :> [major |-> "a=6375738.7", ell |-> "rf=334.29"])
  @@ ("delmbr" :> [major |-> "a=6376428.", ell |-> "rf=311.5"])
  @@ ("engelis" :> [major |-> "a=6378136.05", ell |-> "rf=298.2566"])
  @@ ("evrst30" :> [major |-> "a=6377276.345", ell |-> "rf=300.8017"])
  @@ ("evrst48" :> [major |-> "a=6377304.063", ell |-> "rf=300.8017"])
  @@ ("evrst56" :> [major |-> "a=6377301.243", ell |-> "rf=300.8017"])
  @@ ("evrst69" :> [major |-> "a=6377295.664", ell |-> "rf=300.8017"])
  @@ ("evrstSS" :> [major |-> "a=6377298.556", ell |-> "rf=300.8017"])
  @@ ("fschr60" :> [major |-> "a=6378166.", ell |-> "rf=298.3"])
  @@ ("fschr60m" :> [major |-> "a=6378155.", ell |-> "rf=298.3"])
  @@ ("fschr68" :> [major |-> "a=6378150.", ell |-> "rf=298.3"])
  @@ ("helmert" :> [major |-> "a=6378200.", ell |-> "rf=298.3"])
  @@ ("hough" :> [major |-> "a=6378270.0", ell |-> "rf=297."])
  @@ ("intl" :> [major |-> "a=6378388.0", ell |-> "rf=297."])
  @@ ("krass" :> [major |-> "a=6378245.0", ell |-> "rf=298.3"])
  @@ ("kaula" :> [major |-> "a=6378163.", ell |-> "rf=298.24"])
  @@ ("lerch" :> [major |-> "a=6378139.", ell |-> "rf=298.257"])
  @@ ("mprts" :> [major |-> "a=6397300.", ell |-> "rf=191."])
  @@ ("new_intl" :> [major |-> "a=6378157.5", ell |-> "b=6356772.2"])
  @@ ("plessis" :> [major |-> "a=6376523.", ell |-> "b=6355863."])
  @@ ("SEasia" :> [major |-> "a=6378155.0", ell |-> "b=6356773.3205"])
  @@ ("walbeck" :> [major |-> "a=6376896.0", ell |-> "b=6355834.8467"])
  @@ ("WGS60" :> [major |-> "a=6378165.0", ell |-> "rf=298.3"])
  @@ ("WGS66" :> [major |-> "a=6378145.0", ell |-> "rf=298.25"])
  @@ ("WGS72" :> [major |-> "a=6378135.0", ell |-> "rf=298.26"])
  @@ ("WGS84" :> [major |-> "a=6378137.0", ell |-> "rf=298.257223563"])
  @@ ("sphere" :> [major |-> "a=6370997.0", ell |-> "b=6370997.0"])

\* units_list: id -> to_meter (the literal of the source is on the right)
units_list ==
     ("km" :> [to_meter |-> Fin(10000000, -4)])  \* 1000
  @@ ("m" :> [to_meter |-> Fin(10000000, -7)])  \* 1.0
  @@ ("dm" :> [to_meter |-> Fin(10000000, -8)])  \* 0.1
  @@ ("cm" :> [to_meter |-> Fin(10000000, -9)])  \* 0.01
  @@ ("mm" :> [to_meter |-> Fin(10000000, -10)])  \* 0.001
  @@ ("kmi" :> [to_meter |-> Fin(18520000, -4)])  \* 1852.0
  @@ ("in" :> [to_meter |-> Fin(25400000, -9)])  \* 0.0254
  @@ ("ft" :> [to_meter |-> Fin(30480000, -8)])  \* 0.3048
  @@ ("yd" :> [to_meter |-> Fin(91440000, -8)])  \* 0.9144
  @@ ("mi" :> [to_meter |-> Fin(16093440, -4)])  \* 1609.344
  @@ ("fath" :> [to_meter |-> Fin(18288000, -7)])  \* 1.8288
  @@ ("ch" :> [to_meter |-> Fin(20116800, -6)])  \* 20.1168
  @@ ("link" :> [to_meter |-> Fin(20116800, -8)])  \* 0.201168
  @@ ("us-in" :> [to_meter |-> Fin(25400051, -9)])  \* 0.0254000508
  @@ ("us-ft" :> [to_meter |-> Fin(30480061, -8)])  \* 0.304800609601219
  @@ ("us-yd" :> [to_meter |-> Fin(91440183, -8)])  \* 0.914401828803658
  @@ ("us-ch" :> [to_meter |-> Fin(20116840, -6)])  \* 20.11684023368047
  @@ ("us-mi" :> [to_meter |-> Fin(16093472, -4)])  \* 1609.347218694437
  @@ ("ind-yd" :> [to_meter |-> Fin(91439523, -8)])  \* 0.91439523
  @@ ("ind-ft" :> [to_meter |-> Fin(30479841, -8)])  \* 0.30479841
  @@ ("ind-ch" :> [to_meter |-> Fin(20116695, -6)])  \* 20.11669506

\* pm_list: id -> defn
pm_list ==
     ("greenwich" :> [defn |-> "0dE"])
  @@ ("lisbon" :> [defn |-> "9d07'54.862\"W"])
  @@ ("paris" :> [defn |-> "2d20'14.025\"E"])
  @@ ("bogota" :> [defn |-> "74d04'51.3\"W"])
  @@ ("madrid" :> [defn |-> "3d41'16.58\"W"])
  @@ ("rome" :> [defn |-> "12d27'8.4\"E"])
  @@ ("bern" :> [defn |-> "7d26'22.5\"E"])
  @@ ("jakarta" :> [defn |-> "106d48'27.79\"E"])
  @@ ("ferro" :> [defn |-> "17d40'W"])
  @@ ("brussels" :> [defn |-> "4d22'4.71\"E"])
  @@ ("stockholm" :> [defn |-> "18d3'29.8\"E"])
  @@ ("athens" :> [defn |-> "23d42'58.815\"E"])
  @@ ("oslo" :> [defn |-> "10d43'22.5\"E"])

----------------------------------------------------------------------------
(* projection.go: paramset *)

EmptyParams == [x \in {} |-> ""]

\* params[key] = val
Put(params, key, val) ==
  [x \in DOMAIN params \cup {key} |-> IF x = key THEN val ELSE params[x]]

paramset_string(p, s) ==
  [v |-> IF s \in DOMAIN p THEN p[s] ELSE "", ok |-> s \in DOMAIN p]

paramset_bool(p, s) ==
  IF s \in DOMAIN p
  THEN (IF p[s] = "" THEN [b |-> TRUE, ok |-> TRUE] ELSE ParseBool(p[s]))
  ELSE [b |-> FALSE, ok |-> FALSE]

paramset_float(p, s) ==
  IF s \in DOMAIN p THEN ParseFloat(p[s]) ELSE [f |-> Zero, ok |-> FALSE]

\* parseDegreeString's locals after the degrees: res, and ds cut after the
\* "d" found at idx
Degrees(ds, idx) ==
  [res |-> ParseFloat(IF idx >= 0 THEN SubSeq(ds, 1, idx) ELSE ds).f,
   ds  |-> IF idx >= 0 THEN SubSeq(ds, idx + 2, Len(ds)) ELSE ds]

\* res += f / per for the field that ends at idx, ds cut after it
DmsPart(st, idx, per) ==
  IF idx >= 0
  THEN [res |-> FAdd[st.res, FDiv[ParseFloat(SubSeq(st.ds, 1, idx)).f, per]],
        ds  |-> SubSeq(st.ds, idx + 2, Len(st.ds))]
  ELSE st

DmsField(st, c, per) == DmsPart(st, Index(st.ds, c), per)

DmsSign(st) ==
  IF HasSuffix(st.ds, "W") \/ HasSuffix(st.ds, "S") THEN FMul[st.res, FInt(-1)]
  ELSE st.res

parseDegreeString(ds) ==
  DmsSign(DmsField(DmsField(Degrees(ds, Index(ds, "d")), "'", FInt(60)),
                   "\"", FInt(360)))

paramset_degree(p, s) ==
  IF s \in DOMAIN p
  THEN [f |-> FMul[parseDegreeString(p[s]), d2r], ok |-> TRUE]
  ELSE [f |-> Zero, ok |-> FALSE]

\* key and val from the parts of strings.Split(s, "=")
KeyValOf(defs) == [key |-> defs[1], val |-> IF Len(defs) = 2 THEN defs[2] ELSE ""]

keyVal(s) == KeyValOf(Split(s, "="))

----------------------------------------------------------------------------
(* projection.go: pj, setDatum, setEllipse *)

\* &pj{axis: "enu"}, with the fields of the kernel that embeds it (impl names
\* the kernel type; c, n, rho0, phi1, phi2, ellips are LCC's and
\* Equirectangular's own fields), every other field at its zero value
NewPj ==
  [proj |-> "", axis |-> "enu", datumType |-> 0, datumParams |-> <<>>,
   catalogName |-> "", a |-> Zero, es |-> Zero, e |-> Zero, ra |-> Zero,
   lam0 |-> Zero, phi0 |-> Zero, k0 |-> Zero, x0 |-> Zero, y0 |-> Zero,
   oneEs |-> Zero, rOneEs |-> Zero, aOrig |-> Zero, esOrig |-> Zero,
   geoc |-> FALSE, over |-> FALSE, long_wrap_set |-> FALSE,
   long_wrap_center |-> Zero, to_meter |-> Zero, fr_meter |-> Zero,
   vto_meter |-> Zero, vfr_meter |-> Zero, from_greenwich |-> Zero,
   impl |-> "", c |-> Zero, n |-> Zero, rho0 |-> Zero, phi1 |-> Zero,
   phi2 |-> Zero, ellips |-> FALSE]

\* setDatum returns the receiver and the parameter set as it leaves them,
\* and whether it panicked
Datum(p, params, panic) == [p |-> p, params |-> params, panic |-> panic]

\* make([]float64, 7), then datumParams[i] for every part
DatumParams(parts) ==
  [i \in 1..7 |-> IF i <= Len(parts) THEN ParseFloat(parts[i]).f ELSE Zero]

\* the towgs84 branch, dp the slice the loop has filled; an index past the
\* seventh element panics (index out of range)
Towgs84Kind(p, params, n, dp) ==
  IF n > 7 THEN Datum([p EXCEPT !.datumParams = dp], params, TRUE)
  ELSE IF n = 7
    THEN Datum([p EXCEPT !.datumType = PJD_7PARAM,
                         !.datumParams =
                            [dp EXCEPT ![4] = FMul[@, sec2rad],
                                       ![5] = FMul[@, sec2rad],
                                       ![6] = FMul[@, sec2rad],
                                       ![7] = FAdd[FDiv[@, FInt(1000000)], One]]],
               params, FALSE)
  ELSE Datum([p EXCEPT !.datumType = PJD_3PARAM, !.datumParams = dp], params, FALSE)

Towgs84(p, params, parts) == Towgs84Kind(p, params, Len(parts), DatumParams(parts))

\* params[key] = val
PutKeyVal(params, kv) == Put(params, kv.key, kv.val)

\* the datum's ellipse and definition written into the parameter set
DatumDefaults(params, name) ==
  IF name.ok /\ name.v \in DOMAIN datums_list
  THEN PutKeyVal(Put(params, "ellps", datums_list[name.v].ellipse),
                 keyVal(datums_list[name.v].definition))
  ELSE params

\* the shift kind, from nadgrids, catalog and towgs84
DatumKind(p, params) ==
  IF paramset_string(params, "nadgrids").ok
    THEN Datum([p EXCEPT !.datumType = PJD_GRIDSHIFT], params, FALSE)
  ELSE IF paramset_string(params, "catalog").ok
    THEN Datum([p EXCEPT !.datumType = PJD_GRIDSHIFT,
                         !.catalogName = paramset_string(params, "catalog").v],
               params, FALSE)
  ELSE IF paramset_string(params, "towgs84").ok
    THEN Towgs84(p, params, Split(paramset_string(params, "towgs84").v, ","))
  ELSE Datum(p, params, FALSE)

setDatum(p, params) ==
  DatumKind(p, DatumDefaults(params, paramset_string(params, "datum")))

\* params[key] = val unless the key is set
PutIfAbsent(params, kv) ==
  IF kv.key \in DOMAIN params THEN params ELSE Put(params, kv.key, kv.val)

\* the ellipsoid's major and ell written into the parameter set
EllipseDefaults(params, name) ==
  IF name.ok /\ name.v \in DOMAIN ellipse_list
  THEN PutIfAbsent(PutIfAbsent(params, keyVal(ellipse_list[name.v].major)),
                   keyVal(ellipse_list[name.v].ell))
  ELSE params

\* the receiver and the local b
Shape(p, b) == [p |-> p, b |-> b]

\* the last branch of the es chain: b, ok = params.float("b")
SemiMinorGiven(p, b) ==
  Shape(IF b.ok
        THEN [p EXCEPT !.es = FSub[One, FDiv[FMul[b.f, b.f], FMul[p.a, p.a]]]]
        ELSE p,
        b.f)

\* p.es from the first of es, e, rf, f, b that is given and parses
EsChain(p, es, e, rf, f, b) ==
  IF es.ok THEN Shape([p EXCEPT !.es = es.f], Zero)
  ELSE IF e.ok THEN Shape([p EXCEPT !.es = FMul[e.f, e.f]], Zero)
  ELSE IF rf.ok
    THEN Shape([p EXCEPT !.es = FMul[FDiv[One, rf.f], FSub[Two, FDiv[One, rf.f]]]], Zero)
  ELSE IF f.ok THEN Shape([p EXCEPT !.es = FMul[f.f, FSub[Two, f.f]]], Zero)
  ELSE SemiMinorGiven(p, b)

Eccentricity(p, params) ==
  EsChain(p, paramset_float(params, "es"), paramset_float(params, "e"),
          paramset_float(params, "rf"), paramset_float(params, "f"),
          paramset_float(params, "b"))

\* if b == 0 { b = p.a * math.Sqrt(1.-p.es) }
SemiMinor(sh) ==
  IF FEq[sh.b, Zero] THEN Shape(sh.p, FMul[sh.p.a, Sqrt[FSub[One, sh.p.es]]]) ELSE sh

\* p.a *= 1. - p.es*(sixth+p.es*(r4+p.es*r6)); p.es = 0.
Authalic(p, r4, r6) ==
  [p EXCEPT !.a = FMul[p.a, FSub[One, FMul[p.es,
                    FAdd[sixth, FMul[p.es, FAdd[r4, FMul[p.es, r6]]]]]]],
            !.es = Zero]

\* whether the flag s is set: b && ok of params.bool(s)
Flag(params, s) == paramset_bool(params, s).b /\ paramset_bool(params, s).ok

\* the radius substitutions R_A, R_V, R_g, R_h
Sphere(sh, params) ==
  IF Flag(params, "R_A") THEN Authalic(sh.p, ra4, ra6)
  ELSE IF Flag(params, "R_V") THEN Authalic(sh.p, rv4, rv6)
  ELSE IF Flag(params, "R_g")
    THEN [sh.p EXCEPT !.a = Sqrt[FMul[sh.p.a, sh.b]], !.es = Zero]
  ELSE IF Flag(params, "R_h")
    THEN [sh.p EXCEPT !.a = FDiv[FMul[FMul[Two, sh.p.a], sh.b], FAdd[sh.p.a, sh.b]],
                      !.es = Zero]
  ELSE sh.p

\* the else branch of setEllipse (no R), once the ellipsoid's defaults are in
EllipseShape(p, params) ==
  [p |-> Sphere(SemiMinor(Eccentricity([p EXCEPT !.a = paramset_float(params, "a").f],
                                       params)),
                params),
   params |-> params]

\* setEllipse once r, ok = params.float("R") is read
EllipseOrSphere(p, params, r) ==
  IF r.ok THEN [p |-> [p EXCEPT !.a = r.f], params |-> params]
  ELSE EllipseShape(p, EllipseDefaults(params, paramset_string(params, "ellps")))

\* the receiver and the parameter set as setEllipse leaves them
setEllipse(p, params) == EllipseOrSphere(p, params, paramset_float(params, "R"))

----------------------------------------------------------------------------
(* the kernels' initializers *)

lookupImpl(pin) ==
  IF pin.proj \in {"latlong", "longlat", "latlon", "lonlat"} THEN "LngLat"
  ELSE IF pin.proj = "merc" THEN "Mercator"
  ELSE IF pin.proj = "lcc" THEN "LCC"
  ELSE IF pin.proj = "eqc" THEN "Equirectangular"
  ELSE "nil"

\* each init: the receiver as it leaves it, and the error it returns
LngLat_init(ll, params) ==
  [p |-> [ll EXCEPT !.x0 = Zero, !.y0 = Zero], err |-> nil]

\* phits is params.degree("lat_ts"), cosphi is math.Cos(math.Abs(phits))
Mercator_k0(m, phits, cosphi) ==
  [p |-> IF ~FEq[m.e, Zero] /\ phits.ok
           THEN [m EXCEPT !.k0 = msfn(Sin[FAbs[phits.f]], cosphi, m.es)]
         ELSE IF phits.ok THEN [m EXCEPT !.k0 = cosphi]
         ELSE m,
   err |-> nil]

Mercator_phits(m, phits) == Mercator_k0(m, phits, Cos[FAbs[phits.f]])

Mercator_init(m, params) == Mercator_phits(m, paramset_degree(params, "lat_ts"))

\* phi1, phi2 and phi0: lat_1 and lat_2 are params.degree of the keys, lat_0
\* is params.string("lat_0")
LCC_parallels(ll, lat_1, lat_2, lat_0) ==
  [ll EXCEPT !.phi1 = lat_1.f,
             !.phi2 = IF lat_2.ok THEN lat_2.f ELSE lat_1.f,
             !.phi0 = IF ~lat_2.ok /\ ~lat_0.ok THEN lat_1.f ELSE @]

LCC_secant(ll) == FGe[FAbs[FSub[ll.phi1, ll.phi2]], epsln]

\* ll.c = m * math.Pow(t, y) / ll.n
LCC_c(ll, m, t, y) == [ll EXCEPT !.c = FDiv[FMul[m, Pow[t, y]], ll.n]]

\* ll.rho0: 0 at a pole, else ll.c * math.Pow(t, y)
LCC_rho0(ll, t, y) ==
  [ll EXCEPT !.rho0 = IF FLt[FAbs[FSub[FAbs[ll.phi0], half_pi]], epsln] THEN Zero
                      ELSE FMul[ll.c, Pow[t, y]]]

\* ll.n of the secant case on an ellipsoid; sinphi is math.Sin(ll.phi2)
LCC_n_ellipsoid(ll, m1, ml1, sinphi) ==
  FDiv[Log[FDiv[m1, msfn(sinphi, Cos[ll.phi2], ll.es)]],
       Log[FDiv[ml1, tsfn(ll.phi2, sinphi, ll.e)]]]

\* c and rho0 on an ellipsoid, once ll.n is set
LCC_c_ellipsoid(ll, m1, ml1) ==
  LCC_rho0(LCC_c(ll, m1, ml1, FNeg[ll.n]),
           tsfn(ll.phi0, Sin[ll.phi0], ll.e), ll.n)

\* the if ll.ellips branch: ll.e is set, m1 and ml1 are the source's locals
LCC_ellipsoid(ll, sinphi, m1, ml1) ==
  LCC_c_ellipsoid([ll EXCEPT !.n = IF LCC_secant(ll)
                                   THEN LCC_n_ellipsoid(ll, m1, ml1, Sin[ll.phi2])
                                   ELSE sinphi],
                  m1, ml1)

\* ll.n of the secant case on a sphere; t1 is math.Tan(fort_pi + .5*ll.phi1)
LCC_n_sphere(ll, cosphi, t1) ==
  FDiv[Log[FDiv[cosphi, Cos[ll.phi2]]],
       Log[FDiv[Tan[FAdd[fort_pi, FMul[Half, ll.phi2]]], t1]]]

\* c and rho0 on a sphere, once ll.n is set
LCC_c_sphere(ll, cosphi, t1) ==
  LCC_rho0(LCC_c(ll, cosphi, t1, ll.n),
           Tan[FAdd[fort_pi, FMul[Half, ll.phi0]]], FNeg[ll.n])

\* the else branch
LCC_sphere(ll, sinphi, cosphi, t1) ==
  LCC_c_sphere([ll EXCEPT !.n = IF LCC_secant(ll) THEN LCC_n_sphere(ll, cosphi, t1)
                                ELSE sinphi],
               cosphi, t1)

\* from ll.ellips on: ll.e is math.Sqrt(ll.es) on an ellipsoid
LCC_shape(ll, sinphi, cosphi) ==
  IF ll.ellips
  THEN LCC_ellipsoid(ll, sinphi, msfn(sinphi, cosphi, ll.es), tsfn(ll.phi1, sinphi, ll.e))
  ELSE LCC_sphere(ll, sinphi, cosphi, Tan[FAdd[fort_pi, FMul[Half, ll.phi1]]])

\* ll.ellips, and ll.e on an ellipsoid
LCC_e(ll) ==
  [ll EXCEPT !.ellips = ~FEq[ll.es, Zero],
             !.e = IF ~FEq[ll.es, Zero] THEN Sqrt[ll.es] ELSE @]

\* LCC.init once phi1, phi2 and phi0 are set
LCC_constants(ll) ==
  IF FLe[FAbs[FAdd[ll.phi1, ll.phi2]], epsln]
  THEN [p |-> ll, err |-> "these can't be the same"]
  ELSE [p |-> LCC_shape(LCC_e(ll), Sin[ll.phi1], Cos[ll.phi1]), err |-> nil]

LCC_init(ll, params) ==
  LCC_constants(LCC_parallels(ll, paramset_degree(params, "lat_1"),
                              paramset_degree(params, "lat_2"),
                              paramset_string(params, "lat_0")))

Equirectangular_init(eqc, params) ==
  [p |-> [eqc EXCEPT !.phi1 = paramset_degree(params, "lat_1").f], err |-> nil]

\* imp.init(parms), dispatched on the kernel type
init(imp, params) ==
  CASE imp.impl = "LngLat" -> LngLat_init(imp, params)
    [] imp.impl = "Mercator" -> Mercator_init(imp, params)
    [] imp.impl = "LCC" -> LCC_init(imp, params)
    [] imp.impl = "Equirectangular" -> Equirectangular_init(imp, params)

----------------------------------------------------------------------------
(* projection.go: NewProjection *)

\* parms[key] = val for a part that is not blank
PutParam(parms, param) ==
  IF param = "" THEN parms ELSE PutKeyVal(parms, keyVal(param))

RECURSIVE ParseParts(_, _, _)
\* the loop over strings.Split(str, "+")
ParseParts(parts, i, parms) ==
  IF i > Len(parts) THEN parms
  ELSE ParseParts(parts, i + 1, PutParam(parms, TrimSpace(parts[i])))

\* aOrig, esOrig and the derived ellipsoid quantities
Derive(pin) ==
  [pin EXCEPT !.aOrig = pin.a, !.esOrig = pin.es, !.e = Sqrt[pin.es],
              !.ra = FDiv[One, pin.a], !.oneEs = FSub[One, pin.es],
              !.rOneEs = FDiv[One, FSub[One, pin.es]]]

\* the WGS84/GRS80 reclassification
Wgs84Alias(pin) ==
  IF /\ pin.datumType = PJD_3PARAM
     /\ \/ pin.datumParams = <<>>
        \/ /\ FEq[pin.datumParams[1], Zero]
           /\ FEq[pin.datumParams[2], Zero]
           /\ FEq[pin.datumParams[3], Zero]
     /\ FEq[pin.a, Lit("6378137.0")]
     /\ FLt[FAbs[FSub[pin.es, Lit("0.006694379990")]], Lit("0.000000000050")]
  THEN [pin EXCEPT !.datumType = PJD_WGS84]
  ELSE pin

\* geoc, over, lon_wrap: lwc is params.degree("lon_wrap")
Flags(pin, parms, lwc) ==
  [pin EXCEPT !.geoc = paramset_bool(parms, "geoc").b,
              !.over = paramset_bool(parms, "over").b,
              !.long_wrap_set = lwc.ok,
              !.long_wrap_center = lwc.f]

\* lon_0, lat_0, x_0, y_0
Placement(pin, parms) ==
  [pin EXCEPT !.lam0 = paramset_degree(parms, "lon_0").f,
              !.phi0 = paramset_degree(parms, "lat_0").f,
              !.x0 = paramset_float(parms, "x_0").f,
              !.y0 = paramset_float(parms, "y_0").f]

\* the scaling with the precedence of the two keys exchanged: k0 from k,
\* else k_0, else 1
ScaleOf_k_first(k_0, k) == IF k.ok THEN k.f ELSE IF k_0.ok THEN k_0.f ELSE One

\* general scaling: k0 from k_0, else k, else 1; k_0 and k are params.float
\* of the keys
ScaleOf(k_0, k) == IF k_0.ok THEN k_0.f ELSE IF k.ok THEN k.f ELSE One

Scale(parms) == ScaleOf(paramset_float(parms, "k_0"), paramset_float(parms, "k"))

\* to_meter and fr_meter from the unit named
LinearUnits(pin, name) ==
  IF name.ok /\ name.v \in DOMAIN units_list
  THEN [pin EXCEPT !.to_meter = units_list[name.v].to_meter,
                   !.fr_meter = FDiv[One, units_list[name.v].to_meter]]
  ELSE pin

\* the string s of the units blocks: the value of key unless a unit is named
UnitString(parms, name, key) ==
  IF name.ok THEN "" ELSE paramset_string(parms, key).v

\* if s != "" { } else { pin.to_meter = 1; pin.fr_meter = 1 }
LinearDefault(pin, s) ==
  IF s # "" THEN pin ELSE [pin EXCEPT !.to_meter = One, !.fr_meter = One]

\* the vertical unit named is written to to_meter and fr_meter
VerticalUnits(pin, name) ==
  IF name.ok /\ name.v \in DOMAIN units_list
  THEN [pin EXCEPT !.to_meter = units_list[name.v].to_meter,
                   !.fr_meter = units_list[name.v].to_meter]
  ELSE pin

\* if s != "" { } else { pin.vto_meter = pin.to_meter; pin.vfr_meter = pin.fr_meter }
VerticalDefault(pin, s) ==
  IF s # "" THEN pin
  ELSE [pin EXCEPT !.vto_meter = pin.to_meter, !.vfr_meter = pin.fr_meter]

\* units and vertical units
Units(pin, parms) ==
  VerticalDefault(
    VerticalUnits(
      LinearDefault(LinearUnits(pin, paramset_string(parms, "units")),
                    UnitString(parms, paramset_string(parms, "units"), "to_meter")),
      paramset_string(parms, "vunits")),
    UnitString(parms, paramset_string(parms, "vunits"), "vto_meter"))

\* prime meridian
PrimeMeridian(pin, parms) ==
  IF paramset_string(parms, "pm").ok /\ paramset_string(parms, "pm").v \in DOMAIN pm_list
  THEN [pin EXCEPT !.from_greenwich =
          parseDegreeString(pm_list[paramset_string(parms, "pm").v].defn)]
  ELSE pin

NilImp == [NewPj EXCEPT !.impl = "nil"]

\* NewProjection as it runs: out is "run", then "return" or "panic"; imp is
\* pin, then the Projection returned (impl = "nil" for a nil Projection); err
\* is the error returned; given is the parameter set as parsed from str and
\* parms the same set as resolution leaves it; initErr is what imp.init
\* returned
Running(pin, parms) ==
  [out |-> "run", imp |-> pin, err |-> nil, given |-> parms, parms |-> parms,
   initErr |-> nil]

\* return nil, e
ReturnErr(st, e) == [st EXCEPT !.out = "return", !.imp = NilImp, !.err = e]

\* pin := &pj{axis: "enu"}; pin.proj
NewProjection_proj(parms) ==
  IF paramset_string(parms, "proj").ok
  THEN Running([NewPj EXCEPT !.proj = paramset_string(parms, "proj").v], parms)
  ELSE ReturnErr(Running(NewPj, parms), ErrUnsupportedProj)

\* pin.setEllipse(parms) has returned el
NewProjection_setEllipse(st, el) == [st EXCEPT !.imp = el.p, !.parms = el.params]

\* pin.setDatum(parms) has returned d
NewProjection_setDatum(st, d) ==
  IF d.panic THEN [st EXCEPT !.out = "panic", !.imp = NilImp, !.parms = d.params]
  ELSE NewProjection_setEllipse(st, setEllipse(d.p, d.params))

NewProjection_ellipsoid(st) ==
  IF st.out # "run" THEN st
  ELSE NewProjection_setDatum(st, setDatum(st.imp, st.parms))

\* from aOrig to lon_wrap
NewProjection_derive(st) ==
  IF st.out # "run" THEN st
  ELSE [st EXCEPT !.imp = Flags(Wgs84Alias(Derive(st.imp)), st.parms,
                                 paramset_degree(st.parms, "lon_wrap"))]

NewProjection_axis(st) ==
  IF st.out # "run" THEN st
  ELSE IF ~paramset_string(st.parms, "axis").ok THEN st
  ELSE IF Len(paramset_string(st.parms, "axis").v) # 3 THEN ReturnErr(st, ErrInvalidParam)
  ELSE [st EXCEPT !.imp.axis = paramset_string(st.parms, "axis").v]

\* from the central meridian to pin.k0
NewProjection_place(st) ==
  IF st.out # "run" THEN st
  ELSE [st EXCEPT !.imp = [Placement(st.imp, st.parms) EXCEPT !.k0 = Scale(st.parms)]]

\* if pin.k0 <= 0 { return nil, ErrInvalidParam }
NewProjection_scale(st) ==
  IF st.out # "run" THEN st
  ELSE IF FLe[st.imp.k0, Zero] THEN ReturnErr(st, ErrInvalidParam)
  ELSE st

\* units, vertical units, prime meridian
NewProjection_units(st) ==
  IF st.out # "run" THEN st
  ELSE [st EXCEPT !.imp = PrimeMeridian(Units(st.imp, st.parms), st.parms)]

\* imp.init(parms) has returned i; return imp, nil
NewProjection_return(st, i) ==
  [st EXCEPT !.out = "return", !.imp = i.p, !.initErr = i.err]

\* imp := lookupImpl(pin), and what follows
NewProjection_init(st, kernel) ==
  IF kernel # "nil"
  THEN NewProjection_return(st, init([st.imp EXCEPT !.impl = kernel], st.parms))
  ELSE ReturnErr(st, ErrUnsupportedProj)

NewProjection_kernel(st) ==
  IF st.out # "run" THEN st ELSE NewProjection_init(st, lookupImpl(st.imp))

NewProjection(str) ==
  NewProjection_kernel(NewProjection_units(NewProjection_scale(
    NewProjection_place(NewProjection_axis(NewProjection_derive(
      NewProjection_ellipsoid(NewProjection_proj(
        ParseParts(Split(str, "+"), 1, EmptyParams))))))))) 

----------------------------------------------------------------------------
(* math.go: phi2, adjLng *)

\* dphi of one pass; con is e * math.Sin(phi)
phi2_dphi(e, ts, phi, con) ==
  FSub[FSub[half_pi,
            FMul[Two, Atan[FMul[ts,
              Pow[FDiv[FSub[One, con], FAdd[One, con]], FMul[e, Half]]]]]],
       phi]

\* phi += dphi, without the convergence test
phi2_next_untested(st, dphi) ==
  [st EXCEPT !.phi = FAdd[st.phi, dphi], !.i = st.i + 1]

\* phi += dphi, and the convergence test
phi2_next(st, dphi) ==
  [st EXCEPT !.phi = FAdd[st.phi, dphi], !.i = st.i + 1,
             !.done = FLt[FAbs[dphi], epsln]]

RECURSIVE phi2_loop(_)
\* the for loop (i = 0 .. 15): st.i passes made, st.done once a pass ended
\* with math.Abs(dphi) < epsln
phi2_loop(st) ==
  IF st.done \/ st.i > 15 THEN st
  ELSE phi2_loop(phi2_next(st, phi2_dphi(st.e, st.ts, st.phi,
                                          FMul[st.e, Sin[st.phi]])))

\* the value returned when the loop is left
phi2_return(st) ==
  IF st.done THEN [f |-> st.phi, err |-> nil, iters |-> st.i]
  ELSE [f |-> NInf, err |-> "phi2 has no convergence", iters |-> st.i]

phi2(e, ts) ==
  phi2_return(phi2_loop([e |-> e, ts |-> ts,
                         phi |-> FSub[half_pi, FMul[Two, Atan[ts]]],
                         i |-> 0, done |-> FALSE]))

\* the state in which phi2 enters its loop
phi2_enter(e, ts) ==
  [e |-> e, ts |-> ts, phi |-> FSub[half_pi, FMul[Two, Atan[ts]]],
   i |-> 0, done |-> FALSE]

\* the else branch of adjLng without its last statement (x -= math.Pi)
adjLng_wrap_unshifted(x) ==
  FSub[x, FMul[two_pi, Floor[FDiv[x, two_pi]]]]

\* the else branch of adjLng: x is already x + math.Pi
adjLng_wrap(x) ==
  FSub[FSub[x, FMul[two_pi, Floor[FDiv[x, two_pi]]]], Pi]

adjLng(x) ==
  IF FLe[FAbs[x], s_pi] THEN x ELSE adjLng_wrap(FAdd[x, Pi])

----------------------------------------------------------------------------
(* the kernels' translators: each returns x, y, err, and whether it panicked *)

Tr(x, y, err) == [x |-> x, y |-> y, err |-> err, panic |-> FALSE]

LngLat_fwd(ll, lam, phi) == Tr(FDiv[lam, ll.a], FDiv[phi, ll.a], nil)

LngLat_inv(ll, x, y) == Tr(FMul[x, ll.a], FMul[y, ll.a], nil)

Mercator_fwd(m, lam, phi) ==
  IF ~FEq[m.es, Zero]
  THEN Tr(FMul[m.k0, lam],
          FMul[FNeg[m.k0], Log[tsfn(phi, Sin[phi], m.e)]], nil)
  ELSE Tr(FMul[m.k0, lam],
          FMul[m.k0, Log[Tan[FAdd[fort_pi, FMul[Half, phi]]]]], nil)

\* lng with the outcome of phi2
WithLat(lng, lat) == Tr(lng, lat.f, lat.err)

Mercator_inv(m, x, y) ==
  IF ~FEq[m.es, Zero]
  THEN WithLat(FMul[x, m.k0], phi2(Exp[FDiv[FNeg[y], m.k0]], m.e))
  ELSE Tr(FDiv[x, m.k0],
          FSub[half_pi, FMul[Two, Atan[Exp[FDiv[FNeg[y], m.k0]]]]], nil)

\* rho of LCC.fwd: the variable's zero value at a pole
LCC_rho(ll, phi) ==
  IF FLt[FAbs[FSub[FAbs[phi], half_pi]], epsln] THEN Zero
  ELSE FMul[ll.c, Pow[IF ll.ellips THEN tsfn(phi, Sin[phi], ll.e)
                      ELSE Tan[FAdd[fort_pi, FMul[Half, phi]]],
                      IF ll.ellips THEN ll.n ELSE FNeg[ll.n]]]

\* x and y of LCC.fwd: lam is already lam * ll.n
LCC_xy(ll, lam, rho) ==
  Tr(FMul[ll.k0, FMul[rho, Sin[lam]]],
     FMul[ll.k0, FSub[ll.rho0, FMul[rho, Cos[lam]]]], nil)

LCC_fwd(ll, lam, phi) ==
  IF FLt[FAbs[FSub[FAbs[phi], half_pi]], epsln] /\ FLe[FMul[phi, ll.n], Zero]
  THEN Tr(hugeVal, hugeVal, "something")
  ELSE LCC_xy(ll, FMul[lam, ll.n], LCC_rho(ll, phi))

LCC_inv(ll, x, y) == [Tr(Zero, Zero, nil) EXCEPT !.panic = TRUE]

Equirectangular_fwd(eqc, lam, phi) ==
  Tr(FDiv[lam, eqc.a], FDiv[phi, eqc.a], nil)

Equirectangular_inv(eqc, x, y) ==
  Tr(FMul[FMul[x, Cos[eqc.phi1]], eqc.a], FMul[y, eqc.a], nil)

\* the translator each kernel's Forward hands to commonFwd
fwd(imp, lam, phi) ==
  CASE imp.impl = "LngLat" -> LngLat_fwd(imp, lam, phi)
    [] imp.impl = "Mercator" -> Mercator_fwd(imp, lam, phi)
    [] imp.impl = "LCC" -> LCC_fwd(imp, lam, phi)
    [] imp.impl = "Equirectangular" -> Equirectangular_fwd(imp, lam, phi)

\* the translator each kernel's Inverse hands to commonInv
inv(imp, x, y) ==
  CASE imp.impl = "LngLat" -> LngLat_inv(imp, x, y)
    [] imp.impl = "Mercator" -> Mercator_inv(imp, x, y)
    [] imp.impl = "LCC" -> LCC_inv(imp, x, y)
    [] imp.impl = "Equirectangular" -> Equirectangular_inv(imp, x, y)

----------------------------------------------------------------------------
(* projection.go: commonFwd, commonInv *)

\* A call's outcome: the returned triple (a, b, err), whether it panicked,
\* whether the kernel translator was invoked, and the receiver as the call
\* leaves it.
Outcome(p, a, b, err, panic, tr) ==
  [a |-> a, b |-> b, err |-> err, panic |-> panic, tr |-> tr, p |-> p]

\* commonFwd from the translator's return on: r is what tr returned
commonFwd_tail(p, r) ==
  IF r.panic THEN Outcome(p, Zero, Zero, nil, TRUE, TRUE)
  ELSE IF r.err # nil THEN Outcome(p, hugeVal, hugeVal, r.err, FALSE, TRUE)
  ELSE Outcome(p, FMul[p.fr_meter, FAdd[FMul[p.a, r.x], p.x0]],
                  FMul[p.fr_meter, FAdd[FMul[p.a, r.y], p.y0]],
               nil, FALSE, TRUE)

\* commonFwd once the range test has passed: t is |phi| - half_pi
commonFwd_body(p, lam, phi, t) ==
  commonFwd_tail(p,
    fwd(p,
        IF ~p.over THEN adjLng(FSub[lam, p.lam0]) ELSE FSub[lam, p.lam0],
        IF FLe[FAbs[t], epsln] THEN Copysign[half_pi, phi]
        ELSE IF p.geoc THEN Atan[FMul[p.rOneEs, Tan[phi]]]
        ELSE phi))

commonFwd_test(p, lam, phi, t) ==
  IF FGt[t, epsln] \/ FGt[FAbs[lam], FInt(10)]
  THEN Outcome(p, hugeVal, hugeVal, ErrOutOfBounds, FALSE, FALSE)
  ELSE commonFwd_body(p, lam, phi, t)

commonFwd(p, lam, phi) == commonFwd_test(p, lam, phi, FSub[FAbs[phi], half_pi])

\* commonInv from the translator's return on, were y += p.lam0 to store
\* into the receiver (p.lam0 += y) instead of the local
commonInv_tail_storing(p, x, y, r) ==
  IF r.panic THEN Outcome(p, Zero, Zero, nil, TRUE, TRUE)
  ELSE IF r.err # nil THEN Outcome(p, hugeVal, hugeVal, r.err, FALSE, TRUE)
  ELSE Outcome([p EXCEPT !.lam0 = FAdd[@, y]], r.x,
               IF p.geoc /\ FGt[FAbs[FSub[FAbs[r.y], half_pi]], epsln]
               THEN Atan[FMul[p.oneEs, Tan[r.y]]]
               ELSE r.y,
               nil, FALSE, TRUE)

\* commonInv from the translator's return on: r is what tr returned.  The
\* updates of the locals x and y (y += p.lam0; x = adjLng(x)) touch neither
\* lam nor phi, which are what the function returns.
commonInv_tail(p, x, y, r) ==
  IF r.panic THEN Outcome(p, Zero, Zero, nil, TRUE, TRUE)
  ELSE IF r.err # nil THEN Outcome(p, hugeVal, hugeVal, r.err, FALSE, TRUE)
  ELSE Outcome(p, r.x,
               IF p.geoc /\ FGt[FAbs[FSub[FAbs[r.y], half_pi]], epsln]
               THEN Atan[FMul[p.oneEs, Tan[r.y]]]
               ELSE r.y,
               nil, FALSE, TRUE)

\* commonInv once the sentinel test has passed, x and y rescaled
commonInv_body(p, x, y) == commonInv_tail(p, x, y, inv(p, x, y))

\* commonInv testing only x against the sentinel
commonInv_x_only(p, x, y) ==
  IF FEq[x, hugeVal]
  THEN Outcome(p, hugeVal, hugeVal, ErrOutOfBounds, FALSE, FALSE)
  ELSE commonInv_body(p, FMul[FSub[FMul[x, p.to_meter], p.x0], p.ra],
                         FMul[FSub[FMul[y, p.to_meter], p.y0], p.ra])

commonInv(p, x, y) ==
  IF FEq[x, hugeVal] \/ FEq[y, hugeVal]
  THEN Outcome(p, hugeVal, hugeVal, ErrOutOfBounds, FALSE, FALSE)
  ELSE commonInv_body(p, FMul[FSub[FMul[x, p.to_meter], p.x0], p.ra],
                         FMul[FSub[FMul[y, p.to_meter], p.y0], p.ra])

\* Forward and Inverse of every kernel delegate to the common pipelines
Forward(imp, lng, lat) == commonFwd(imp, lng, lat)

Inverse(imp, x, y) == commonInv(imp, x, y)

----------------------------------------------------------------------------
(* The program: a definition is resolved into a handle, and concurrent
   callers then call Forward and Inverse on it. *)

\* the number of concurrent callers
NumCallers == 2

\* the number of calls made on a handle
MaxCalls == 2

Callers == 1 .. NumCallers

\* the definition strings handed to NewProjection
Definitions ==
  { "+title=WGS 84 (long/lat) +proj=longlat +ellps=WGS84 +datum=WGS84 +units=degrees",
    "+title=WGS 84 / Pseudo-Mercator +proj=merc +a=6378137 +b=6378137 +lat_ts=0.0 +lon_0=0.0 +x_0=0.0 +y_0=0 +k=1.0 +units=m +nadgrids=@null +no_defs",
    "+proj=longlat +ellps=WGS84 +lon_0=10",
    "+proj=merc +ellps=WGS84",
    "+proj=merc +ellps=WGS84 +k=2",
    "+proj=merc +a=6378137 +b=6378137 +lat_ts=60",
    "+proj=merc +ellps=WGS84 +lat_ts=120",
    "+proj=lcc +lat_1=33 +lat_2=45 +lat_0=23 +ellps=GRS80",
    "+proj=lcc +lat_0=18 +lat_1=18 +lon_0=-77 +k_0=1 +k_0=1.0 +R=6378137",
    "+proj=lcc +lat_1=18 +lat_2=-18 +ellps=WGS84",
    "+proj=eqc +ellps=WGS84 +lat_1=30",
    "+proj=longlat +ellps=WGS84 +k_0=-1",
    "+proj=longlat +ellps=WGS84 +k=0",
    "+proj=longlat +ellps=WGS84 +k_0=1 +k=-1",
    "+proj=merc +ellps=WGS84 +k_0=-1 +k=1",
    "+proj=longlat +datum=NAD27 +ellps=WGS84",
    "+proj=longlat +datum=WGS84 +towgs84=1,2,3",
    "+proj=longlat +datum=NAD83",
    "+proj=longlat +ellps=WGS84 +towgs84=1,2,3,4,5,6,7",
    "+proj=longlat +ellps=WGS84 +towgs84=1,2,3",
    "+proj=longlat +ellps=WGS84 +towgs84=1,2,3,4,5,6,7,8",
    "+proj=longlat +ellps=WGS84 +catalog=c",
    "+proj=longlat +ellps=WGS84 +axis=en",
    "+proj=utm +ellps=WGS84",
    "+ellps=WGS84",
    "+proj=longlat +ellps=WGS84 +R_g +units=km +pm=lisbon",
    "+proj=longlat +ellps=WGS84 +R_A +vunits=km",
    "+proj=utm +ellps=WGS84 +towgs84=1,x" }

\* the (lng, lat) pairs handed to Forward: two interior points, a latitude
\* out of range, and the south pole
ForwardInputs ==
  { <<Half, Lit("0.2")>>, <<FInt(-2), FInt(-1)>>, <<Zero, Two>>,
    <<Zero, FNeg[half_pi]>> }

\* the (x, y) pairs handed to Inverse, besides the results of Forward
InverseInputs ==
  { <<hugeVal, One>>, <<One, hugeVal>>, <<FInt(1000), FInt(2000)>> }

VARIABLES
  pc,       \* "start", then "ready" (a handle was returned), "failed" (an
            \* error was returned) or "panic" (the program aborted)
  defn,     \* the definition string handed to NewProjection
  given,    \* the parameter set as parsed from defn
  parms,    \* the parameter set as resolution left it
  handle,   \* the Projection returned (impl = "nil" when none)
  handle0,  \* the handle as NewProjection returned it
  err,      \* the error NewProjection returned
  initErr,  \* the error the kernel's init returned
  calls,    \* each caller's current or last call
  ncalls,   \* the number of calls made so far
  adj,      \* a value under adjLng
  sol       \* a latitude solve (phi2) under way

vars == <<pc, defn, given, parms, handle, handle0, err, initErr, calls, ncalls, adj, sol>>

\* what a call returned: the triple, whether it panicked, and whether the
\* kernel translator was invoked
Result(o) == [a |-> o.a, b |-> o.b, err |-> o.err, panic |-> o.panic, tr |-> o.tr]

NoResult == [a |-> Zero, b |-> Zero, err |-> nil, panic |-> FALSE, tr |-> FALSE]

\* a caller that has not called yet
Idle ==
  [op |-> "none", phase |-> "idle", a |-> Zero, b |-> Zero,
   chained |-> FALSE, lng |-> Zero, lat |-> Zero, ferr |-> nil,
   res |-> NoResult, alone |-> NoResult]

\* a call in flight.  For an Inverse made on the result of the caller's own
\* Forward, chained is TRUE and lng, lat, ferr are that Forward's arguments
\* and error.
Called(op, a, b, chained, lng, lat, ferr) ==
  [op |-> op, phase |-> "called", a |-> a, b |-> b,
   chained |-> chained, lng |-> lng, lat |-> lat, ferr |-> ferr,
   res |-> NoResult, alone |-> NoResult]

AdjIdle == [pc |-> "idle", x |-> Zero, r1 |-> Zero, r2 |-> Zero]

\* no solve under way.  call is "phi2" or "Inverse"; e, ts are the arguments
\* of phi2 and x, y those of Inverse; st is the state of phi2's loop, dphi
\* the last delta, small the number of passes whose delta was below epsln;
\* ret is what phi2 returned and res what Inverse returned
SolIdle ==
  [pc |-> "idle", call |-> "none", e |-> Zero, ts |-> Zero, x |-> Zero,
   y |-> Zero,
   st |-> [e |-> Zero, ts |-> Zero, phi |-> Zero, i |-> 0, done |-> FALSE],
   dphi |-> Zero, small |-> 0,
   ret |-> [f |-> Zero, err |-> nil, iters |-> 0], res |-> NoResult]

Init ==
  /\ pc = "start"
  /\ defn = ""
  /\ given = EmptyParams
  /\ parms = EmptyParams
  /\ handle = NilImp
  /\ handle0 = NilImp
  /\ err = nil
  /\ initErr = nil
  /\ calls = [c \in Callers |-> Idle]
  /\ ncalls = 0
  /\ adj = AdjIdle
  /\ sol = SolIdle

\* the program's state once NewProjection(str) has returned r
Resolved(str, r) ==
  /\ pc' = IF r.out = "panic" THEN "panic"
           ELSE IF r.err # nil THEN "failed" ELSE "ready"
  /\ defn' = str
  /\ given' = r.given
  /\ parms' = r.parms
  /\ handle' = r.imp
  /\ handle0' = r.imp
  /\ err' = r.err
  /\ initErr' = r.initErr
  /\ UNCHANGED <<calls, ncalls, adj, sol>>

Resolve ==
  /\ pc = "start"
  /\ \E str \in Definitions : Resolved(str, NewProjection(str))

CanCall(c) ==
  /\ pc = "ready"
  /\ calls[c].phase \in {"idle", "returned"}
  /\ ncalls < MaxCalls

Call(c, rec) ==
  /\ calls' = [calls EXCEPT ![c] = rec]
  /\ ncalls' = ncalls + 1
  /\ UNCHANGED <<pc, defn, given, parms, handle, handle0, err, initErr, adj, sol>>

CallForward(c) ==
  /\ CanCall(c)
  /\ \E in \in ForwardInputs :
       Call(c, Called("Forward", in[1], in[2], FALSE, Zero, Zero, nil))

CallInverse(c) ==
  /\ CanCall(c)
  /\ \E in \in InverseInputs :
       Call(c, Called("Inverse", in[1], in[2], FALSE, Zero, Zero, nil))

\* Inverse on what the caller's Forward has just returned
CallInverseOfForward(c) ==
  /\ CanCall(c)
  /\ calls[c].op = "Forward"
  /\ calls[c].phase = "returned"
  /\ Call(c, Called("Inverse", calls[c].res.a, calls[c].res.b, TRUE,
                    calls[c].a, calls[c].b, calls[c].res.err))

\* the call of caller c ends with outcome o; al is the outcome of the same
\* call on the handle as NewProjection returned it
Return(c, o, al) ==
  /\ calls' = [calls EXCEPT ![c] =
                 [@ EXCEPT !.phase = IF o.panic THEN "panicked" ELSE "returned",
                           !.res = Result(o), !.alone = Result(al)]]
  /\ handle' = o.p
  /\ pc' = IF o.panic THEN "panic" ELSE pc
  /\ UNCHANGED <<defn, given, parms, handle0, err, initErr, ncalls, adj, sol>>

\* the handle as it is now (TRUE) and as NewProjection returned it (FALSE)
HandleAt(now) == IF now THEN handle ELSE handle0

\* the call ends: os[TRUE] is its outcome, os[FALSE] that of the same call
\* on the handle as NewProjection returned it
Returns(c, os) == Return(c, os[TRUE], os[FALSE])

ReturnForward(c) ==
  /\ pc = "ready"
  /\ calls[c].phase = "called"
  /\ calls[c].op = "Forward"
  /\ Returns(c, [now \in BOOLEAN |-> Forward(HandleAt(now), calls[c].a, calls[c].b)])

ReturnInverse(c) ==
  /\ pc = "ready"
  /\ calls[c].phase = "called"
  /\ calls[c].op = "Inverse"
  /\ Returns(c, [now \in BOOLEAN |-> Inverse(HandleAt(now), calls[c].a, calls[c].b)])

Next ==
  \/ Resolve
  \/ \E c \in Callers : CallForward(c)
  \/ \E c \in Callers : CallInverse(c)
  \/ \E c \in Callers : CallInverseOfForward(c)
  \/ \E c \in Callers : ReturnForward(c)
  \/ \E c \in Callers : ReturnInverse(c)

Spec == Init /\ [][Next]_vars

----------------------------------------------------------------------------
(* adjLng on its own: a value is normalised once, and the result once more *)

\* the values handed to adjLng lie within AdjSpan quarter radians of zero
AdjSpan == 40

\* the multiples of 1/4 within the span, the bounds of the test in adjLng
\* (math.Pi and s_pi, of either sign), and +Inf
AdjInputs ==
  {FDiv[FInt(i), Four] : i \in -AdjSpan .. AdjSpan}
    \cup {Pi, FNeg[Pi], s_pi, FNeg[s_pi], PInf}

InitAdj ==
  /\ pc = "start"
  /\ defn = ""
  /\ given = EmptyParams
  /\ parms = EmptyParams
  /\ handle = NilImp
  /\ handle0 = NilImp
  /\ err = nil
  /\ initErr = nil
  /\ calls = [c \in Callers |-> Idle]
  /\ ncalls = 0
  /\ adj \in {[pc |-> "in", x |-> x, r1 |-> Zero, r2 |-> Zero] : x \in AdjInputs}
  /\ sol = SolIdle

\* r1 = adjLng(x)
AdjOnce ==
  /\ adj.pc = "in"
  /\ adj' = [adj EXCEPT !.pc = "once", !.r1 = adjLng(adj.x)]
  /\ UNCHANGED <<pc, defn, given, parms, handle, handle0, err, initErr, calls, ncalls, sol>>

\* r2 = adjLng(r1)
AdjTwice ==
  /\ adj.pc = "once"
  /\ adj' = [adj EXCEPT !.pc = "twice", !.r2 = adjLng(adj.r1)]
  /\ UNCHANGED <<pc, defn, given, parms, handle, handle0, err, initErr, calls, ncalls, sol>>

NextAdj == AdjOnce \/ AdjTwice

SpecAdj == InitAdj /\ [][NextAdj]_vars

----------------------------------------------------------------------------
(* phi2 pass by pass, called on its own and by Inverse on an ellipsoidal
   Mercator handle *)

\* the definition of the handle the solves are made on
SolDefinition == "+proj=merc +ellps=WGS84"

\* the (e, ts) pairs handed to phi2: eccentricities from the sphere to
\* beyond 1, ts from the pole (0) to the southern hemisphere (2)
Phi2Inputs ==
  {Zero, Lit("0.081819191"), Half, Lit("0.9"), Lit("1.5"), FInt(3)}
    \X {Zero, Lit("0.1"), Half, One, Two}

\* the (x, y) pairs handed to Inverse: north and south of the equator, and
\* a sentinel
SolInverseInputs ==
  { <<FInt(1000), FInt(2000)>>, <<FInt(3000000), FInt(1000000)>>,
    <<FInt(-222000), FInt(-7000000)>>, <<FInt(1000), hugeVal>> }

\* a solve about to start
SolCall(call, e, ts, x, y) ==
  [SolIdle EXCEPT !.pc = "in", !.call = call, !.e = e, !.ts = ts, !.x = x, !.y = y]

\* the program's state once NewProjection(str) has returned the handle r.imp
Built(str, r) ==
  /\ pc = "ready"
  /\ defn = str
  /\ given = r.given
  /\ parms = r.parms
  /\ handle = r.imp
  /\ handle0 = r.imp
  /\ err = r.err
  /\ initErr = r.initErr

InitPhi2 ==
  /\ Built(SolDefinition, NewProjection(SolDefinition))
  /\ calls = [c \in Callers |-> Idle]
  /\ ncalls = 0
  /\ adj = AdjIdle
  /\ sol \in {SolCall("phi2", in[1], in[2], Zero, Zero) : in \in Phi2Inputs}
        \cup {SolCall("Inverse", Zero, Zero, in[1], in[2]) : in \in SolInverseInputs}

\* the solver's state changes and nothing else does
Solving(next) ==
  /\ sol' = next
  /\ UNCHANGED <<pc, defn, given, parms, handle, handle0, err, initErr, calls, ncalls, adj>>

\* phi2(e, ts) is entered
Phi2Call ==
  /\ sol.pc = "in"
  /\ sol.call = "phi2"
  /\ Solving([sol EXCEPT !.pc = "loop", !.st = phi2_enter(sol.e, sol.ts)])

\* commonInv up to the translator, and Mercator.inv up to its call of phi2:
\* x and y are rescaled, and phi2(math.Exp(-y/m.k0), m.e) is entered
InverseEnter(x, y) ==
  Solving([sol EXCEPT !.pc = "loop", !.x = x, !.y = y,
                      !.e = Exp[FDiv[FNeg[y], handle.k0]], !.ts = handle.e,
                      !.st = phi2_enter(Exp[FDiv[FNeg[y], handle.k0]], handle.e)])

InverseCall ==
  /\ sol.pc = "in"
  /\ sol.call = "Inverse"
  /\ ~FEq[handle.es, Zero]
  /\ ~(FEq[sol.x, hugeVal] \/ FEq[sol.y, hugeVal])
  /\ InverseEnter(FMul[FSub[FMul[sol.x, handle.to_meter], handle.x0], handle.ra],
                  FMul[FSub[FMul[sol.y, handle.to_meter], handle.y0], handle.ra])

\* Inverse returns at the sentinel test
InverseRefuse ==
  /\ sol.pc = "in"
  /\ sol.call = "Inverse"
  /\ FEq[sol.x, hugeVal] \/ FEq[sol.y, hugeVal]
  /\ Solving([sol EXCEPT !.pc = "inverse",
                         !.res = Result(commonInv(handle, sol.x, sol.y))])

\* one pass of the loop, dphi its delta
Phi2Pass(dphi) ==
  Solving([sol EXCEPT !.st = phi2_next(sol.st, dphi), !.dphi = dphi,
                      !.small = IF FLt[FAbs[dphi], epsln] THEN @ + 1 ELSE @])

Phi2Iterate ==
  /\ sol.pc = "loop"
  /\ ~sol.st.done
  /\ sol.st.i <= 15
  /\ Phi2Pass(phi2_dphi(sol.st.e, sol.st.ts, sol.st.phi,
                        FMul[sol.st.e, Sin[sol.st.phi]]))

\* the loop is left and phi2 returns
Phi2Return ==
  /\ sol.pc = "loop"
  /\ sol.st.done \/ sol.st.i > 15
  /\ Solving([sol EXCEPT !.pc = "returned", !.ret = phi2_return(sol.st)])

\* Mercator.inv returns lng, lat, err and commonInv goes on from there
InverseReturn ==
  /\ sol.pc = "returned"
  /\ sol.call = "Inverse"
  /\ Solving([sol EXCEPT !.pc = "inverse",
                         !.res = Result(commonInv_tail(handle, sol.x, sol.y,
                                   WithLat(FMul[sol.x, handle.k0], sol.ret)))])

NextPhi2 ==
  \/ Phi2Call
  \/ InverseCall
  \/ InverseRefuse
  \/ Phi2Iterate
  \/ Phi2Return
  \/ InverseReturn

SpecPhi2 == InitPhi2 /\ [][NextPhi2]_vars

----------------------------------------------------------------------------
(* The properties *)

\* |a - b| < 1e-5
Close(a, b) == FLt[FAbs[FSub[a, b]], Fin(10000000, -12)]

\* NewProjection has returned (it has not panicked)
Returned == pc # "start" /\ ~(pc = "panic" /\ handle.impl = "nil")

\* the definition has a supported proj code and no invalid parameter other
\* than the scale
Supported ==
  /\ Returned
  /\ lookupImpl([proj |-> paramset_string(given, "proj").v]) # "nil"
  /\ paramset_string(given, "axis").ok => Len(paramset_string(given, "axis").v) = 3

\* the definition carries a key whose value parses to a number <= 0
NonPositive(key) ==
  paramset_float(given, key).ok /\ FLe[paramset_float(given, key).f, Zero]

\* construction failed with the invalid-parameter error and returned no handle
InvalidParam == err = ErrInvalidParam /\ handle.impl = "nil"

\* C1 as claimed: a definition with a supported proj code that carries
\* k_0 <= 0 or k <= 0 fails with ErrInvalidParam and returns no handle,
\* whichever of the two keys carries the non-positive value.
C1_AnyNonPositiveScaleFails ==
  (Supported /\ (NonPositive("k_0") \/ NonPositive("k"))) => InvalidParam

\* C1 amended: a definition with a supported proj code fails with
\* ErrInvalidParam and returns no handle when k_0 parses to a value <= 0, or
\* when k_0 is absent or does not parse and k parses to a value <= 0.
C1_ResolvedScaleNonPositiveFails ==
  (Supported /\ (NonPositive("k_0")
                   \/ (~paramset_float(given, "k_0").ok /\ NonPositive("k"))))
    => InvalidParam

\* a definition with k_0 <= 0 and k > 0 has been refused
C1_Witness ==
  /\ Supported
  /\ NonPositive("k_0")
  /\ paramset_float(given, "k").ok
  /\ FGt[paramset_float(given, "k").f, Zero]
  /\ InvalidParam

\* C2: whenever the selected kernel's initializer fails, NewProjection
\* returns an error and no handle.
C2_InitFailureAborts ==
  initErr # nil => (err # nil /\ handle.impl = "nil")

\* lon in (-pi, pi] and lat in (-pi/2, pi/2)
Interior(lon, lat) ==
  /\ FGt[lon, FNeg[Pi]]
  /\ FLe[lon, Pi]
  /\ FLt[FAbs[lat], half_pi]

\* caller c's Inverse, made on the result of its own Forward, has returned
RoundTrip(c) ==
  /\ calls[c].op = "Inverse"
  /\ calls[c].chained
  /\ calls[c].phase \in {"returned", "panicked"}

\* the round trip of caller c gave back the arguments of its Forward
GaveBack(c) ==
  /\ calls[c].ferr = nil
  /\ calls[c].res.err = nil
  /\ ~calls[c].res.panic
  /\ Close(calls[c].res.a, calls[c].lng)
  /\ Close(calls[c].res.b, calls[c].lat)

\* C3: on a handle of the Geographic kernel, whatever its lon_0, for lon in
\* (-pi, pi] and lat in (-pi/2, pi/2), Forward succeeds and Inverse of its
\* result returns (lon, lat) within 1e-5 with no error.
C3_GeographicRoundTrip ==
  \A c \in Callers :
    /\ (/\ handle.impl = "LngLat"
        /\ calls[c].op = "Forward"
        /\ calls[c].phase = "returned"
        /\ Interior(calls[c].a, calls[c].b)) => calls[c].res.err = nil
    /\ (/\ handle.impl = "LngLat"
        /\ RoundTrip(c)
        /\ Interior(calls[c].lng, calls[c].lat)) => GaveBack(c)

\* C4: on a Mercator handle, ellipsoidal or spherical, with k0 > 0, Inverse
\* of Forward(lon, lat) returns (lon, lat) within 1e-5 for interior
\* latitudes.
C4_MercatorRoundTrip ==
  \A c \in Callers :
    (/\ handle.impl = "Mercator"
     /\ FGt[handle.k0, Zero]
     /\ RoundTrip(c)
     /\ Interior(calls[c].lng, calls[c].lat)) => GaveBack(c)

\* C5: if Forward returns an error then both returned coordinates are the
\* sentinel hugeVal; and Inverse called with a pair in which either
\* coordinate is the sentinel returns the out-of-range error and the
\* sentinel pair without invoking the kernel's inverse function.
C5_ForwardFailureDetectable ==
  \A c \in Callers :
    /\ (/\ calls[c].op = "Forward"
        /\ calls[c].phase = "returned"
        /\ calls[c].res.err # nil)
         => (calls[c].res.a = hugeVal /\ calls[c].res.b = hugeVal)
    /\ (/\ calls[c].op = "Inverse"
        /\ calls[c].phase \in {"returned", "panicked"}
        /\ (calls[c].a = hugeVal \/ calls[c].b = hugeVal))
         => (/\ calls[c].res.err = ErrOutOfBounds
             /\ calls[c].res.a = hugeVal
             /\ calls[c].res.b = hugeVal
             /\ ~calls[c].res.tr
             /\ ~calls[c].res.panic)

\* on a Lambert Conformal Conic handle, Forward failed in the kernel and the
\* Inverse made on its result was refused
C5_Witness ==
  \E c \in Callers :
    /\ handle.impl = "LCC"
    /\ RoundTrip(c)
    /\ calls[c].ferr = "something"
    /\ calls[c].a = hugeVal
    /\ calls[c].res.err = ErrOutOfBounds
    /\ ~calls[c].res.tr

\* C6: after NewProjection has returned a handle, any interleaving of
\* Forward and Inverse calls leaves every field of the handle unchanged, and
\* each call's result equals the result of the same call made alone.
C6_HandleImmutable ==
  /\ handle = handle0
  /\ \A c \in Callers :
       calls[c].phase \in {"returned", "panicked"} => calls[c].res = calls[c].alone

\* one caller's call has failed while another caller's call is in flight,
\* after an earlier call on the same handle
C6_Witness ==
  \E c, d \in Callers :
    /\ c # d
    /\ calls[c].phase = "returned"
    /\ calls[c].res.err # nil
    /\ calls[c].res.tr
    /\ calls[d].phase = "called"
    /\ handle = handle0

\* x is finite and within the span of the inputs
InSpan(x) == IsFin(x) /\ FLe[FAbs[x], FDiv[FInt(AdjSpan), Four]]

C8_ExplicitParametersWin ==
  (/\ pc # "start"
   /\ paramset_string(given, "datum").ok
   /\ paramset_string(given, "datum").v \in DOMAIN datums_list)
    => \A key \in {"ellps", "towgs84", "nadgrids"} :
         key \in DOMAIN given => (key \in DOMAIN parms /\ parms[key] = given[key])

\* C9: every handle NewProjection returns has k0 > 0, also after the
\* kernel's initializer has run and across Forward and Inverse calls.
C9_ScalePositive ==
  handle.impl # "nil" => FGt[handle.k0, Zero]

\* the shift kinds
Kinds == {"none", "grid-shift", "3-parameter", "7-parameter", "WGS84-alias"}

\* the tag of a kind
Tag(kind) ==
  CASE kind = "none" -> PJD_UNKNOWN
    [] kind = "grid-shift" -> PJD_GRIDSHIFT
    [] kind = "3-parameter" -> PJD_3PARAM
    [] kind = "7-parameter" -> PJD_7PARAM
    [] kind = "WGS84-alias" -> PJD_WGS84

\* the kind the parameter set ps determines, before the WGS84 reclassification
KindOf(ps) ==
  IF "nadgrids" \in DOMAIN ps \/ "catalog" \in DOMAIN ps THEN "grid-shift"
  ELSE IF "towgs84" \notin DOMAIN ps THEN "none"
  ELSE IF Len(Split(ps["towgs84"], ",")) = 7 THEN "7-parameter"
  ELSE "3-parameter"

\* C10: after datum resolution the stored tag is that of the kind the
\* parameters determine (or the WGS84 alias, for a 3-parameter shift), and
\* the five tags are pairwise distinct, so the stored tag identifies the kind.
C10_TagIdentifiesKind ==
  handle.impl # "nil"
    => (/\ handle.datumType \in {Tag(KindOf(parms)), Tag("WGS84-alias")}
        /\ handle.datumType = Tag("WGS84-alias") => KindOf(parms) = "3-parameter"
        /\ \A kind \in Kinds \ {KindOf(parms), "WGS84-alias"} :
             handle.datumType # Tag(kind))

\* one of the radius substitutions is made: setEllipse takes its else
\* branch (no R) and one of the flags is set
Substituted(ps) ==
  /\ ~paramset_float(ps, "R").ok
  /\ \E s \in {"R_A", "R_V", "R_g", "R_h"} : Flag(ps, s)

\* the ellipsoid as setEllipse has it before the substitution: a and es
\* from the parameter set
Ellipsoid(ps) ==
  SemiMinor(Eccentricity([NewPj EXCEPT !.a = paramset_float(ps, "a").f], ps)).p

\* C11: when one of the flags R_A, R_V, R_g, R_h is active, the handle's
\* aOrig and esOrig equal the semi-major axis and the squared eccentricity
\* as they were before the substitution.
C11_OrigBeforeSubstitution ==
  (handle.impl # "nil" /\ Substituted(parms))
    => (/\ handle.aOrig = Ellipsoid(parms).a
        /\ handle.esOrig = Ellipsoid(parms).es)

\* the unit the key names, when it names a catalog entry
Named(ps, key) ==
  paramset_string(ps, key).ok /\ paramset_string(ps, key).v \in DOMAIN units_list

\* meters per unit of the linear unit the parameter set names, 1 when it
\* names none
MetersPerUnit(ps) ==
  IF Named(ps, "units") THEN units_list[paramset_string(ps, "units").v].to_meter
  ELSE One

\* C12: when units names a catalog entry, to_meter is that entry's meters
\* per unit and fr_meter its reciprocal; when no named unit matches both
\* are 1; in every returned handle fr_meter is the reciprocal of to_meter;
\* and vunits changes only vto_meter and vfr_meter.
C12_LinearUnitsResolved ==
  handle.impl # "nil"
    => (/\ handle.to_meter = MetersPerUnit(parms)
        /\ handle.fr_meter = FDiv[One, MetersPerUnit(parms)]
        /\ handle.fr_meter = FDiv[One, handle.to_meter])

\* phi2 has returned in this solve
Solved == sol.pc = "returned" \/ (sol.pc = "inverse" /\ sol.res.tr)

\* phi2 within a budget of n passes: it makes at most n passes; it returns
\* the latitude and no error at the first pass whose delta is below epsln
\* in magnitude; when no pass converges it makes n passes and returns
\* -Inf and the non-convergence error; and Inverse on the ellipsoidal
\* Mercator handle returns that error with the sentinel pair.
WithinBudget(n) ==
  /\ sol.st.i <= n
  /\ sol.small <= 1
  /\ Solved
       => (/\ sol.ret = phi2(sol.e, sol.ts)
           /\ sol.ret.iters = sol.st.i
           /\ IF sol.small = 1
              THEN /\ sol.ret.err = nil
                   /\ sol.ret.f = sol.st.phi
                   /\ FLt[FAbs[sol.dphi], epsln]
              ELSE /\ sol.st.i = n
                   /\ sol.ret.err = "phi2 has no convergence"
                   /\ sol.ret.f = NInf)
  /\ (sol.pc = "inverse" /\ sol.res.tr /\ sol.ret.err # nil)
       => (/\ sol.res.err = sol.ret.err
           /\ sol.res.a = hugeVal
           /\ sol.res.b = hugeVal)

\* C13 as claimed: phi2(e, ts) performs at most 15 refinement iterations,
\* returns the latitude with no error at the first iteration whose delta is
\* below epsilon in magnitude, and otherwise ends with the non-convergence
\* error and -Inf, which the ellipsoidal Mercator Inverse hands to its
\* caller as an error with the sentinel pair.
C13_FifteenIterations == WithinBudget(15)

\* C13 amended: the same with at most 16 refinement iterations (the loop
\* counter runs from 0 through 15).
C13_SixteenIterations == WithinBudget(16)

\* an Inverse on the ellipsoidal Mercator handle whose solve made 16 passes
\* without converging has returned the error and the sentinel pair
C13_Witness ==
  /\ sol.pc = "inverse"
  /\ sol.call = "Inverse"
  /\ sol.st.i = 16
  /\ sol.small = 0
  /\ sol.ret.err = "phi2 has no convergence"
  /\ sol.res.err = sol.ret.err
  /\ sol.res.a = hugeVal

\* the pm parameter names a catalog entry
Meridian(ps) ==
  paramset_string(ps, "pm").ok /\ paramset_string(ps, "pm").v \in DOMAIN pm_list

\* a DMS string in degrees: degrees + minutes/60 + seconds/3600, negated
\* for a trailing W or S
DmsDegrees(ds) ==
  DmsSign(DmsField(DmsField(Degrees(ds, Index(ds, "d")), "'", FInt(60)),
                   "\"", FInt(3600)))

\* C14: when pm names a catalog entry, the handle's from_greenwich (what
\* FromGreenwich() returns) is that entry's DMS offset converted to
\* radians; when pm is absent or not found it is 0.
C14_PrimeMeridianInRadians ==
  handle.impl # "nil"
    => IF Meridian(parms)
       THEN Close(handle.from_greenwich,
                  FMul[DmsDegrees(pm_list[paramset_string(parms, "pm").v].defn), d2r])
       ELSE handle.from_greenwich = Zero

\* C15: for every definition string NewProjection returns either a handle
\* and no error or no handle and an error; no parameter value makes it
\* abort instead of returning.
C15_ConstructionTotal ==
  pc # "start"
    => (/\ Returned
        /\ \/ (handle0.impl # "nil" /\ err = nil)
           \/ (handle0.impl = "nil" /\ err # nil))

====
